---- MODULE Spec2Model ----
(***************************************************************************)
(* A model of the contact-manager bot in src/main.py: the Field / Record   *)
(* / AddressBook classes, the module-level contacts table, the             *)
(* input_error-wrapped command functions and the read-eval-print loop of   *)
(* main().                                                                 *)
(*                                                                         *)
(* Representation.  A Python str is a sequence of one-character strings    *)
(* (the character U+00B2 SUPERSCRIPT TWO is written "sup2").  A printed    *)
(* line is a sequence of string pieces whose concatenation is the printed  *)
(* text: the literal parts of an f-string are single pieces, an            *)
(* interpolated str contributes its characters.  A dict is the sequence    *)
(* of its [k, v] entries in insertion order.  An optional value (None or   *)
(* x) is the sequence << >> or <<x>>.  Record objects live in a heap and   *)
(* are referred to by their ids, so that the aliasing between the          *)
(* contacts table and the address book is part of the state.               *)
(***************************************************************************)
EXTENDS Integers, Sequences, FiniteSets, TLC

VARIABLES
    pc,        \* "awaiting" (main's while loop at input()), "exited", "crashed"
    heap,      \* id -> Record object [name, phones, birthday], live objects only
    contacts,  \* the module-level dict contacts: name -> Record id
    data,      \* address_book.data: name -> Record id
    file,      \* address_book_data.pkl: [exists, content]
    last,      \* the last operation: [op, arg, out, exc, ret]
    hist       \* history: name -> phones given by the successful add and change
               \* commands of this run since the last successful add of the name

vars == <<pc, heap, contacts, data, file, last, hist>>

----------------------------------------------------------------------------
(* Characters and str methods *)

AsciiDigits == {"0", "1", "2", "3", "4", "5", "6", "7", "8", "9"}

\* Characters c with c.isdigit(): the decimal digits and the other characters
\* of Unicode Numeric_Type=Digit, of which the alphabet holds U+00B2.
DigitChars == AsciiDigits \cup {"sup2"}

\* Characters int() accepts as digits (Numeric_Type=Decimal).
DecimalChars == AsciiDigits

Whitespace == {" ", "\t", "\n"}

LowerMap ==
    [A |-> "a", B |-> "b", C |-> "c", D |-> "d", E |-> "e", F |-> "f",
     G |-> "g", H |-> "h", I |-> "i", J |-> "j", K |-> "k", L |-> "l",
     M |-> "m", N |-> "n", O |-> "o", P |-> "p", Q |-> "q", R |-> "r",
     S |-> "s", T |-> "t", U |-> "u", V |-> "v", W |-> "w", X |-> "x",
     Y |-> "y", Z |-> "z"]

\* str.lower()
str_lower(s) ==
    [i \in 1..Len(s) |-> IF s[i] \in DOMAIN LowerMap THEN LowerMap[s[i]] ELSE s[i]]

\* str.isdigit(): non-empty and every character is a digit character
str_isdigit(s) == Len(s) > 0 /\ \A i \in 1..Len(s) : s[i] \in DigitChars

\* str.startswith(prefix)
str_startswith(s, prefix) ==
    Len(s) >= Len(prefix) /\ SubSeq(s, 1, Len(prefix)) = prefix

\* q in s
str_contains(s, q) ==
    \E i \in 0..(Len(s) - Len(q)) : SubSeq(s, i + 1, i + Len(q)) = q

RECURSIVE SkipWs(_, _)
SkipWs(s, i) ==
    IF i <= Len(s) /\ s[i] \in Whitespace THEN SkipWs(s, i + 1) ELSE i

RECURSIVE WordEnd(_, _)
WordEnd(s, i) ==
    IF i <= Len(s) /\ s[i] \notin Whitespace THEN WordEnd(s, i + 1) ELSE i

\* str.split(maxsplit=n) from position i: runs of whitespace separate the
\* words; after n splits the rest of the string, its leading whitespace
\* skipped and its trailing whitespace kept, is the last word.
RECURSIVE SplitFrom(_, _, _)
SplitFrom(s, i, n) ==
    LET j == SkipWs(s, i) IN
    IF j > Len(s) THEN << >>
    ELSE IF n = 0 THEN << SubSeq(s, j, Len(s)) >>
    ELSE LET k == WordEnd(s, j) IN
         << SubSeq(s, j, k - 1) >> \o SplitFrom(s, k, n - 1)

str_split(s, maxsplit) == SplitFrom(s, 1, maxsplit)

\* str.split(sep) for a one-character sep: empty parts are kept
RECURSIVE str_split_sep(_, _)
str_split_sep(s, sep) ==
    IF \E i \in 1..Len(s) : s[i] = sep
    THEN LET i == CHOOSE x \in 1..Len(s) :
                     s[x] = sep /\ \A y \in 1..(x - 1) : s[y] # sep
         IN  << SubSeq(s, 1, i - 1) >> \o str_split_sep(SubSeq(s, i + 1, Len(s)), sep)
    ELSE << s >>

\* str.strip() of a text held as pieces: the whitespace at both ends goes
RECURSIVE str_strip(_)
str_strip(t) ==
    IF t = << >> THEN t
    ELSE IF t[1] \in Whitespace THEN str_strip(Tail(t))
    ELSE IF t[Len(t)] \in Whitespace THEN str_strip(SubSeq(t, 1, Len(t) - 1))
    ELSE t

\* sep.join(items)
RECURSIVE str_join(_, _)
str_join(sep, items) ==
    IF items = << >> THEN << >>
    ELSE IF Len(items) = 1 THEN items[1]
    ELSE items[1] \o sep \o str_join(sep, Tail(items))

DigitVal(c) ==
    CASE c = "0" -> 0 [] c = "1" -> 1 [] c = "2" -> 2 [] c = "3" -> 3
      [] c = "4" -> 4 [] c = "5" -> 5 [] c = "6" -> 6 [] c = "7" -> 7
      [] c = "8" -> 8 [] c = "9" -> 9

RECURSIVE DecimalValue(_)
DecimalValue(ds) ==
    IF ds = << >> THEN 0
    ELSE DecimalValue(SubSeq(ds, 1, Len(ds) - 1)) * 10 + DigitVal(ds[Len(ds)])

\* int(s): surrounding whitespace stripped, an optional sign, then decimal
\* digits, single underscores allowed between digits.  [ok, val]; not ok is
\* ValueError.
int_parse(s) ==
    LET t    == str_strip(s)
        sgn  == IF t # << >> /\ t[1] \in {"+", "-"} THEN t[1] ELSE ""
        body == IF sgn = "" THEN t ELSE Tail(t)
        wellformed ==
            /\ body # << >>
            /\ \A i \in 1..Len(body) : body[i] \in DecimalChars \cup {"_"}
            /\ body[1] # "_" /\ body[Len(body)] # "_"
            /\ \A i \in 1..(Len(body) - 1) : ~(body[i] = "_" /\ body[i + 1] = "_")
        digits == SelectSeq(body, LAMBDA c : c # "_")
    IN  IF wellformed
        THEN [ok |-> TRUE,
              val |-> IF sgn = "-" THEN 0 - DecimalValue(digits) ELSE DecimalValue(digits)]
        ELSE [ok |-> FALSE, val |-> 0]

IsLeap(y) == y % 4 = 0 /\ (y % 100 # 0 \/ y % 400 = 0)

DaysInMonth(y, m) ==
    IF m = 2 THEN (IF IsLeap(y) THEN 29 ELSE 28)
    ELSE IF m \in {4, 6, 9, 11} THEN 30 ELSE 31

\* date(y, m, d) constructs: otherwise ValueError
date_ok(y, m, d) ==
    /\ 1 <= y /\ y <= 9999
    /\ 1 <= m /\ m <= 12
    /\ 1 <= d /\ d <= DaysInMonth(y, m)

----------------------------------------------------------------------------
(* dicts (insertion-ordered) and the heap of Record objects *)

Keys(d) == {d[i].k : i \in 1..Len(d)}

Has(d, k) == k \in Keys(d)

Get(d, k) == d[CHOOSE i \in 1..Len(d) : d[i].k = k].v

\* d[k] = v: an existing key keeps its position
Put(d, k, v) ==
    IF Has(d, k)
    THEN [i \in 1..Len(d) |-> IF d[i].k = k THEN [k |-> k, v |-> v] ELSE d[i]]
    ELSE Append(d, [k |-> k, v |-> v])

\* del d[k]
Del(d, k) == SelectSeq(d, LAMBDA e : e.k # k)

Values(d) == {d[i].v : i \in 1..Len(d)}

\* the id of a newly allocated object
NewId(h) ==
    CHOOSE i \in 1..(Cardinality(DOMAIN h) + 1) :
        i \notin DOMAIN h /\ \A j \in 1..(i - 1) : j \in DOMAIN h

\* reference counting: an object no dict refers to is freed
Collect(h, c, d) == [i \in (Values(c) \cup Values(d)) \cap DOMAIN h |-> h[i]]

----------------------------------------------------------------------------
(* Field, Name, Phone, Birthday, Record *)

PhoneLen == 10

\* Phone.validate with the isdigit test left out
Phone_validate_lenonly(value) ==
    IF Len(value) # PhoneLen THEN "ValueError" ELSE ""

\* Phone.validate: "" when it returns, else the exception raised
Phone_validate(value) ==
    IF ~str_isdigit(value) \/ Len(value) # PhoneLen THEN "ValueError" ELSE ""

\* Birthday.validate: date(*map(int, value.split('-'))); the TypeError of a
\* wrong number of arguments and every ValueError are raised as ValueError
Birthday_validate(value) ==
    LET parts == str_split_sep(value, "-")
        ints  == [i \in 1..Len(parts) |-> int_parse(parts[i])]
    IN  IF \E i \in 1..Len(parts) : ~ints[i].ok THEN "ValueError"
        ELSE IF Len(parts) # 3 THEN "ValueError"
        ELSE IF ~date_ok(ints[1].val, ints[2].val, ints[3].val) THEN "ValueError"
        ELSE ""

\* Record.__init__: Name validates nothing; a birthday that is None or ""
\* is falsy and gives birthday None.  [exc, rec]
Record_init(name, birthday) ==
    LET given == birthday # << >> /\ birthday[1] # << >>
        blank == [name |-> name, phones |-> << >>, birthday |-> << >>]
    IN  IF given /\ Birthday_validate(birthday[1]) # ""
        THEN [exc |-> "ValueError", rec |-> blank]
        ELSE [exc |-> "",
              rec |-> [blank EXCEPT !.birthday = IF given THEN << birthday[1] >> ELSE << >>]]

\* Record.add_phone: [exc, rec]
Record_add_phone(rec, phone) ==
    IF Phone_validate(phone) # ""
    THEN [exc |-> Phone_validate(phone), rec |-> rec]
    ELSE [exc |-> "", rec |-> [rec EXCEPT !.phones = Append(@, phone)]]

\* Record.days_to_birthday.  Field's setter stores the value it validated,
\* and Birthday.validate only accepts a str (it calls value.split), so
\* self.birthday.value is a str and value.replace(year=...) raises TypeError:
\* str.replace() takes no keyword arguments.  A Birthday object is truthy.
\* [exc, ret]: ret is << >> for None, <<n>> for the int n.
Record_days_to_birthday(rec, today) ==
    IF rec.birthday # << >>
    THEN [exc |-> "TypeError", ret |-> << >>]
    ELSE [exc |-> "", ret |-> << >>]

\* Record.__str__ ; str(None) is "None", Field.__str__ is str(self._value)
Record_str(rec) ==
    << "Contact name: " >> \o rec.name
        \o << ", phones: " >> \o str_join(<< "; " >>, rec.phones)
        \o << ", birthday: " >>
        \o (IF rec.birthday = << >> THEN << "None" >> ELSE rec.birthday[1])

----------------------------------------------------------------------------
(* AddressBook *)

NoFile == [exists |-> FALSE, content |-> << >>]

\* pickle.dump(self.data, file): the map with every Record by value
save_to_file(d, h) ==
    [exists |-> TRUE, content |-> [i \in 1..Len(d) |-> [k |-> d[i].k, v |-> h[d[i].v]]]]

\* load_from_file in a new process: every pickled Record becomes a new
\* object; FileNotFoundError gives the empty map.  [data, heap]
load_from_file(f) ==
    IF f.exists
    THEN [data |-> [i \in 1..Len(f.content) |-> [k |-> f.content[i].k, v |-> i]],
          heap |-> [i \in 1..Len(f.content) |-> f.content[i].v]]
    ELSE [data |-> << >>, heap |-> << >>]

\* add_record keyed by the lower-cased name
add_record_lower(d, h, id) ==
    LET d2 == Put(d, str_lower(h[id].name), id)
    IN  [data |-> d2, file |-> save_to_file(d2, h)]

\* add_record: [data, file]
add_record(d, h, id) ==
    LET d2 == Put(d, h[id].name, id)
    IN  [data |-> d2, file |-> save_to_file(d2, h)]

\* delete: KeyError when the name is no key, and then nothing is written
delete(d, h, f, name) ==
    IF ~Has(d, name)
    THEN [exc |-> "KeyError", data |-> d, file |-> f]
    ELSE [exc |-> "", data |-> Del(d, name), file |-> save_to_file(Del(d, name), h)]

RECURSIVE PhoneHits(_, _, _)
PhoneHits(id, phones, query) ==
    IF phones = << >> THEN << >>
    ELSE (IF str_contains(phones[1], query) THEN << id >> ELSE << >>)
             \o PhoneHits(id, Tail(phones), query)

\* search appending a Record once, whatever matches
RECURSIVE search_once(_, _, _)
search_once(d, h, query) ==
    IF d = << >> THEN << >>
    ELSE LET id == d[1].v IN
         (IF \/ str_contains(str_lower(h[id].name), str_lower(query))
             \/ PhoneHits(id, h[id].phones, query) # << >>
          THEN << id >> ELSE << >>)
             \o search_once(Tail(d), h, query)

\* search: the list of the Records appended, by id
RECURSIVE search(_, _, _)
search(d, h, query) ==
    IF d = << >> THEN << >>
    ELSE LET id == d[1].v IN
         (IF str_contains(str_lower(h[id].name), str_lower(query)) THEN << id >> ELSE << >>)
             \o PhoneHits(id, h[id].phones, query)
             \o search(Tail(d), h, query)

----------------------------------------------------------------------------
(* The command functions *)

MsgError == << "Error: Invalid input. Try again." >>

\* input_error: KeyError, ValueError and IndexError become the generic
\* reply; what the function did before raising stays done
input_error(r) ==
    IF r.exc \in {"KeyError", "ValueError", "IndexError"}
    THEN [r EXCEPT !.exc = "", !.reply = MsgError]
    ELSE r

hello == << "How can I help you?" >>

\* add_contact: [exc, reply, heap, contacts]
add_contact(h, c, name, phone, birthday) ==
    LET made  == Record_init(name, birthday)
        added == Record_add_phone(made.rec, phone)
        id    == NewId(h)
    IN  input_error(
            IF made.exc # ""
            THEN [exc |-> made.exc, reply |-> << >>, heap |-> h, contacts |-> c]
            ELSE IF added.exc # ""
            THEN [exc |-> added.exc, reply |-> << >>, heap |-> h, contacts |-> c]
            ELSE [exc |-> "",
                  reply |-> << "The contact " >> \o name \o << " with the number " >>
                                \o phone \o << " has been added." >>,
                  heap |-> h @@ (id :> added.rec),
                  contacts |-> Put(c, name, id)])

\* change_contact: [exc, reply, heap]
change_contact(h, c, name, new_phone, new_birthday) ==
    LET id    == Get(c, name)
        given == new_birthday # << >> /\ new_birthday[1] # << >>
        h1    == IF given THEN [h EXCEPT ![id].birthday = << new_birthday[1] >>] ELSE h
        added == Record_add_phone(h1[id], new_phone)
    IN  input_error(
            IF ~Has(c, name)
            THEN [exc |-> "KeyError", reply |-> << >>, heap |-> h]
            ELSE IF given /\ Birthday_validate(new_birthday[1]) # ""
            THEN [exc |-> "ValueError", reply |-> << >>, heap |-> h]
            ELSE IF added.exc # ""
            THEN [exc |-> added.exc, reply |-> << >>, heap |-> h1]
            ELSE [exc |-> "",
                  reply |-> << "The phone number for " >> \o name
                                \o << " has been changed to " >> \o new_phone \o << "." >>,
                  heap |-> [h1 EXCEPT ![id] = added.rec]])

\* phone_contact replying with the phone added last
phone_contact_last(h, c, name) ==
    input_error(
        IF ~Has(c, name)
        THEN [exc |-> "KeyError", reply |-> << >>]
        ELSE IF h[Get(c, name)].phones = << >>
        THEN [exc |-> "IndexError", reply |-> << >>]
        ELSE [exc |-> "",
              reply |-> << "Phone number for " >> \o name \o << ": " >>
                            \o h[Get(c, name)].phones[Len(h[Get(c, name)].phones)]])

\* phone_contact: [exc, reply]
phone_contact(h, c, name) ==
    input_error(
        IF ~Has(c, name)
        THEN [exc |-> "KeyError", reply |-> << >>]
        ELSE IF h[Get(c, name)].phones = << >>
        THEN [exc |-> "IndexError", reply |-> << >>]
        ELSE [exc |-> "",
              reply |-> << "Phone number for " >> \o name \o << ": " >>
                            \o h[Get(c, name)].phones[1]])

RECURSIVE ContactLines(_, _)
ContactLines(c, h) ==
    IF c = << >> THEN << >>
    ELSE Record_str(h[c[1].v]) \o << "\n" >> \o ContactLines(Tail(c), h)

show_all_contacts(h, c) ==
    IF c = << >> THEN << "You have no contacts saved." >>
    ELSE str_strip(<< "List of contacts:", "\n" >> \o ContactLines(c, h))

----------------------------------------------------------------------------
(* The inputs: the lines typed at the prompt and the arguments of direct   *)
(* calls of the AddressBook and Record methods                             *)

SP == << " " >>

W_exit     == << "e", "x", "i", "t" >>
W_good_bye == << "g", "o", "o", "d", " ", "b", "y", "e" >>
W_close    == << "c", "l", "o", "s", "e" >>
W_hello    == << "h", "e", "l", "l", "o" >>
W_add      == << "a", "d", "d" >>
W_change   == << "c", "h", "a", "n", "g", "e" >>
W_phone    == << "p", "h", "o", "n", "e" >>
W_show_all == << "s", "h", "o", "w", " ", "a", "l", "l" >>
W_search   == << "s", "e", "a", "r", "c", "h" >>

N_al == << "a", "l" >>
N_bo == << "b", "o" >>
N_Al == << "A", "l" >>
N_Bo == << "B", "o" >>

P1 == << "1", "2", "3", "4", "5", "6", "7", "8", "9", "0" >>
P2 == << "0", "9", "8", "7", "6", "5", "4", "3", "2", "1" >>
P_sup   == << "1", "2", "3", "4", "5", "6", "7", "8", "9", "sup2" >>
P_short == << "1", "2", "3" >>
P_long  == << "1", "2", "3", "4", "5", "6", "7", "8", "9", "0", "1" >>
P_alpha == << "1", "2", "3", "4", "5", "a", "b", "c", "d", "e" >>

B1 == << "2", "0", "0", "0", "-", "0", "3", "-", "1", "5" >>
B2 == << "1", "9", "9", "6", "-", "0", "2", "-", "2", "9" >>
B_month   == << "2", "0", "0", "0", "-", "1", "3", "-", "0", "1" >>
B_noleap  == << "2", "0", "0", "1", "-", "0", "2", "-", "2", "9" >>
B_nodash  == << "2", "0", "0", "0", "0", "3", "1", "5" >>

Cmd2(w, a) == w \o SP \o a
Cmd3(w, a, b) == w \o SP \o a \o SP \o b
Cmd4(w, a, b, c) == w \o SP \o a \o SP \o b \o SP \o c

ExitLines == { W_exit, W_good_bye, W_close, << "E", "x", "i", "t" >> }

AddLines ==
    { Cmd3(W_add, N_al, P1),
      Cmd3(<< "A", "D", "D" >>, N_Al, P1),
      Cmd4(W_add, N_al, P1, B1),
      Cmd3(W_add, N_al, P_sup),
      Cmd3(W_add, N_al, P_alpha),
      Cmd3(W_add, N_al, P_long),
      Cmd4(W_add, N_al, P1, B_month),
      Cmd4(W_add, N_al, P1, B_nodash),
      Cmd3(W_add, N_bo, P_short),
      Cmd2(W_add, N_al) }

ChangeLines ==
    { Cmd3(W_change, N_al, P2),
      Cmd4(W_change, N_al, P2, B2),
      Cmd4(W_change, N_al, P_short, B2),
      Cmd4(W_change, N_al, P2, B_noleap),
      Cmd4(W_change, N_al, P2, B1 \o SP \o << "x" >>),
      Cmd3(W_change, N_bo, P1),
      Cmd2(W_change, N_al) }

PhoneLines ==
    { Cmd2(W_phone, N_al), Cmd2(W_phone, N_bo), Cmd3(W_phone, N_al, N_bo), W_phone }

SearchLines ==
    { Cmd2(W_search, << "A", "L" >>), Cmd2(W_search, << "2", "1" >>), W_search }

OtherLines ==
    { W_hello, W_show_all, << >>, << "h", "e", "l", "p" >>, W_hello \o SP }

Lines == ExitLines \cup AddLines \cup ChangeLines \cup PhoneLines
             \cup SearchLines \cup OtherLines

\* Records a caller builds with Record(...) and add_phone(...) and hands to
\* AddressBook.add_record
ApiRecords == { [name |-> N_Bo, phones |-> << P2 >>, birthday |-> << B1 >>] }

ApiNames == { N_al, N_bo, N_Bo }

ApiQueries == { << >>, << "O" >>, << "9", "0" >>, << "z" >> }

Todays == { << 2024, 3, 15 >>, << 2024, 3, 16 >> }

\* the longest phone list a change command is let to grow
MaxPhones == 2

----------------------------------------------------------------------------
(* main *)

\* the chain with hello matched as a prefix, like the commands after it
Branch_prefix(user_input) ==
    IF user_input = W_exit \/ user_input = W_good_bye \/ user_input = W_close THEN "exit"
    ELSE IF str_startswith(user_input, W_hello) THEN "hello"
    ELSE IF str_startswith(user_input, W_add) THEN "add"
    ELSE IF str_startswith(user_input, W_change) THEN "change"
    ELSE IF str_startswith(user_input, W_phone) THEN "phone"
    ELSE IF user_input = W_show_all THEN "show all"
    ELSE IF str_startswith(user_input, W_search) THEN "search"
    ELSE "unknown"

\* the if / elif chain of the loop
Branch(user_input) ==
    IF user_input = W_exit \/ user_input = W_good_bye \/ user_input = W_close THEN "exit"
    ELSE IF user_input = W_hello THEN "hello"
    ELSE IF str_startswith(user_input, W_add) THEN "add"
    ELSE IF str_startswith(user_input, W_change) THEN "change"
    ELSE IF str_startswith(user_input, W_phone) THEN "phone"
    ELSE IF user_input = W_show_all THEN "show all"
    ELSE IF str_startswith(user_input, W_search) THEN "search"
    ELSE "unknown"

\* user_input = input(...).lower() and the two splits of it the branches
\* make, for every line
Read ==
    [line \in Lines |->
        LET user_input == str_lower(line) IN
        [user_input |-> user_input,
         branch     |-> Branch(user_input),
         split3     |-> str_split(user_input, 3),
         split1     |-> str_split(user_input, 1)]]

Op(op, arg, out, exc, ret) ==
    [op |-> op, arg |-> arg, out |-> out, exc |-> exc, ret |-> ret]

\* the history after a command on name that replied reply
Noted(reply, name, phones) ==
    IF reply # MsgError THEN Put(hist, name, phones) ELSE hist

Past(name) == IF Has(hist, name) THEN Get(hist, name) ELSE << >>

\* the process ends: its memory is gone, the file stays
Ended(how, op) ==
    /\ pc' = how
    /\ heap' = << >>
    /\ contacts' = << >>
    /\ data' = << >>
    /\ hist' = << >>
    /\ last' = op
    /\ UNCHANGED file

\* the loop goes round with nothing but the output changed
Replied(op) ==
    /\ last' = op
    /\ UNCHANGED << pc, heap, contacts, data, file, hist >>

Init ==
    /\ pc = "awaiting"
    /\ heap = << >>
    /\ contacts = << >>
    /\ data = << >>
    /\ file = NoFile
    /\ hist = << >>
    /\ last = Op("startup", << >>, << << "Welcome to the helper bot!" >> >>, "", << >>)

\* a new run of the program: contacts = {} and AddressBook(file_path)
Startup ==
    /\ pc \in {"exited", "crashed"}
    /\ pc' = "awaiting"
    /\ contacts' = << >>
    /\ data' = load_from_file(file).data
    /\ heap' = load_from_file(file).heap
    /\ hist' = << >>
    /\ last' = Op("startup", << >>, << << "Welcome to the helper bot!" >> >>, "", << >>)
    /\ UNCHANGED file

ExitCmd(line) ==
    LET user_input == Read[line].user_input IN
    /\ pc = "awaiting"
    /\ Read[line].branch = "exit"
    /\ Ended("exited", Op("exit", user_input, << << "Good bye!" >> >>, "", << >>))

HelloCmd(line) ==
    LET user_input == Read[line].user_input IN
    /\ pc = "awaiting"
    /\ Read[line].branch = "hello"
    /\ Replied(Op("hello", user_input, << hello >>, "", << >>))

\* elif user_input.startswith("add"): the unpacking raises ValueError on
\* fewer than three words, contacts[name] raises KeyError when add_contact
\* stored nothing under a new name; neither is caught
AddCmd(line) ==
    LET user_input == Read[line].user_input
        parts      == Read[line].split3
        name       == parts[2]
        phone      == parts[3]
        birthday   == IF Len(parts) > 3 THEN << parts[4] >> ELSE << >>
        r          == add_contact(heap, contacts, name, phone, birthday)
        book       == add_record(data, r.heap, Get(r.contacts, name))
    IN
    /\ pc = "awaiting"
    /\ Read[line].branch = "add"
    /\ IF Len(parts) < 3
       THEN Ended("crashed", Op("add", user_input, << >>, "ValueError", << >>))
       ELSE IF ~Has(r.contacts, name)
       THEN Ended("crashed", Op("add", user_input, << r.reply >>, "KeyError", << >>))
       ELSE /\ contacts' = r.contacts
            /\ data' = book.data
            /\ file' = book.file
            /\ heap' = Collect(r.heap, r.contacts, book.data)
            /\ hist' = Noted(r.reply, name, << phone >>)
            /\ last' = Op("add", user_input, << r.reply >>, "", << >>)
            /\ UNCHANGED pc

\* the change branch without its address_book.save_to_file()
ChangeCmd_nosave(line) ==
    LET user_input   == Read[line].user_input
        parts        == Read[line].split3
        name         == parts[2]
        new_phone    == parts[3]
        new_birthday == IF Len(parts) > 3 THEN << parts[4] >> ELSE << >>
        r            == change_contact(heap, contacts, name, new_phone, new_birthday)
    IN
    /\ pc = "awaiting"
    /\ Read[line].branch = "change"
    /\ IF Len(parts) < 3
       THEN Ended("crashed", Op("change", user_input, << >>, "ValueError", << >>))
       ELSE /\ Has(contacts, name) => Len(heap[Get(contacts, name)].phones) < MaxPhones
            /\ heap' = r.heap
            /\ hist' = Noted(r.reply, name, Append(Past(name), new_phone))
            /\ last' = Op("change", user_input, << r.reply >>, "", << >>)
            /\ UNCHANGED << pc, contacts, data, file >>

\* elif user_input.startswith("change")
ChangeCmd(line) ==
    LET user_input   == Read[line].user_input
        parts        == Read[line].split3
        name         == parts[2]
        new_phone    == parts[3]
        new_birthday == IF Len(parts) > 3 THEN << parts[4] >> ELSE << >>
        r            == change_contact(heap, contacts, name, new_phone, new_birthday)
    IN
    /\ pc = "awaiting"
    /\ Read[line].branch = "change"
    /\ IF Len(parts) < 3
       THEN Ended("crashed", Op("change", user_input, << >>, "ValueError", << >>))
       ELSE /\ Has(contacts, name) => Len(heap[Get(contacts, name)].phones) < MaxPhones
            /\ heap' = r.heap
            /\ file' = save_to_file(data, r.heap)
            /\ hist' = Noted(r.reply, name, Append(Past(name), new_phone))
            /\ last' = Op("change", user_input, << r.reply >>, "", << >>)
            /\ UNCHANGED << pc, contacts, data >>

\* elif user_input.startswith("phone")
PhoneCmd(line) ==
    LET user_input == Read[line].user_input
        parts      == Read[line].split1
    IN
    /\ pc = "awaiting"
    /\ Read[line].branch = "phone"
    /\ IF Len(parts) # 2
       THEN Ended("crashed", Op("phone", user_input, << >>, "ValueError", << >>))
       ELSE Replied(Op("phone", user_input,
                       << phone_contact(heap, contacts, parts[2]).reply >>, "", << >>))

ShowAllCmd(line) ==
    LET user_input == Read[line].user_input IN
    /\ pc = "awaiting"
    /\ Read[line].branch = "show all"
    /\ Replied(Op("show all", user_input, << show_all_contacts(heap, contacts) >>, "", << >>))

\* elif user_input.startswith("search")
SearchCmd(line) ==
    LET user_input == Read[line].user_input
        parts      == Read[line].split1
        results    == search(data, heap, parts[2])
    IN
    /\ pc = "awaiting"
    /\ Read[line].branch = "search"
    /\ IF Len(parts) # 2
       THEN Ended("crashed", Op("search", user_input, << >>, "ValueError", << >>))
       ELSE Replied(Op("search", user_input,
                       IF results # << >>
                       THEN << << "Search results:" >> >>
                                \o [i \in 1..Len(results) |-> Record_str(heap[results[i]])]
                       ELSE << << "No matching contacts found." >> >>,
                       "", results))

UnknownCmd(line) ==
    LET user_input == Read[line].user_input IN
    /\ pc = "awaiting"
    /\ Read[line].branch = "unknown"
    /\ Replied(Op("unknown", user_input, << << "Unknown command. Try again." >> >>, "", << >>))

----------------------------------------------------------------------------
(* Direct calls of the AddressBook and Record methods in a running process *)

CallAddRecord(rec) ==
    LET id   == NewId(heap)
        h1   == heap @@ (id :> rec)
        book == add_record(data, h1, id)
    IN
    /\ pc = "awaiting"
    /\ data' = book.data
    /\ file' = book.file
    /\ heap' = Collect(h1, contacts, book.data)
    /\ last' = Op("add_record", rec.name, << >>, "", << >>)
    /\ UNCHANGED << pc, contacts, hist >>

CallDelete(name) ==
    LET r == delete(data, heap, file, name) IN
    /\ pc = "awaiting"
    /\ data' = r.data
    /\ file' = r.file
    /\ heap' = Collect(heap, contacts, r.data)
    /\ last' = Op("delete", name, << >>, r.exc, << >>)
    /\ UNCHANGED << pc, contacts, hist >>

CallSearch(query) ==
    /\ pc = "awaiting"
    /\ Replied(Op("AddressBook.search", query, << >>, "", search(data, heap, query)))

CallDaysToBirthday(id, today) ==
    LET r == Record_days_to_birthday(heap[id], today) IN
    /\ pc = "awaiting"
    /\ id \in DOMAIN heap
    /\ Replied(Op("days_to_birthday", << heap[id].birthday, today >>, << >>, r.exc, r.ret))

Next ==
    \/ Startup
    \/ \E line \in Lines :
           \/ ExitCmd(line)
           \/ HelloCmd(line)
           \/ AddCmd(line)
           \/ ChangeCmd(line)
           \/ PhoneCmd(line)
           \/ ShowAllCmd(line)
           \/ SearchCmd(line)
           \/ UnknownCmd(line)
    \/ \E rec \in ApiRecords : CallAddRecord(rec)
    \/ \E name \in ApiNames : CallDelete(name)
    \/ \E query \in ApiQueries : CallSearch(query)
    \/ \E id \in DOMAIN heap, today \in Todays : CallDaysToBirthday(id, today)

Spec == Init /\ [][Next]_vars

----------------------------------------------------------------------------
(* The properties *)

CliOps == {"exit", "hello", "add", "change", "phone", "show all", "search", "unknown"}

\* the record stored under name n in a dict of ids, and in the file, if any
RecIn(d, h, n) == IF Has(d, n) THEN << h[Get(d, n)] >> ELSE << >>

FileRec(f, n) == IF Has(f.content, n) THEN << Get(f.content, n) >> ELSE << >>

Count(seq, x) == Cardinality({i \in 1..Len(seq) : seq[i] = x})

IsTenDigits(s) == Len(s) = 10 /\ \A i \in 1..Len(s) : s[i] \in DigitChars

PhoneInputs == {P1, P2, P_sup, P_short, P_long, P_alpha, << >>, P1 \o SP}

\* C1: the loop ends only on the three exit phrases: whenever the process is
\* no longer awaiting a command, the line it read last was 'exit', 'good bye'
\* or 'close'.
C1_OnlyExitPhrasesTerminate ==
    pc # "awaiting" => last.arg \in {W_exit, W_good_bye, W_close}

\* C2: after every completed add or change command, and after every
\* add_record or delete that returns normally, the file holds exactly the
\* address book's map: the same keys in the same order, every Record by value.
C2_FileEqualsMap ==
    (\/ last.op \in {"add", "change"} /\ pc = "awaiting"
     \/ last.op = "add_record"
     \/ last.op = "delete" /\ last.exc = "")
    => /\ file.exists
       /\ Len(file.content) = Len(data)
       /\ \A i \in 1..Len(data) :
              /\ file.content[i].k = data[i].k
              /\ file.content[i].v = heap[data[i].v]

\* a change command has appended a phone and replaced the birthday of a Record
\* the contacts table and the address book share
C2_Witness ==
    /\ last.op = "change" /\ pc = "awaiting" /\ last.out # << MsgError >>
    /\ Has(contacts, N_al) /\ Has(data, N_al)
    /\ Get(contacts, N_al) = Get(data, N_al)
    /\ heap[Get(data, N_al)].phones = << P1, P2 >>
    /\ heap[Get(data, N_al)].birthday = << B2 >>

\* C3: a contact the file held at startup is available to the lookup and
\* list commands: as the first command of the run, 'phone n' for a loaded n
\* replies with the loaded record's first phone, and 'show all' does not
\* reply that no contacts are saved.
C3_LoadedContactsAvailable ==
    [][last.op = "startup" =>
         /\ (last'.op = "phone" /\ pc' = "awaiting") =>
                LET n == str_split(last'.arg, 1)[2] IN
                (Has(data, n) /\ heap[Get(data, n)].phones # << >>) =>
                    last'.out = << << "Phone number for " >> \o n \o << ": " >>
                                      \o heap[Get(data, n)].phones[1] >>
         /\ (last'.op = "show all" /\ data # << >>) =>
                last'.out # << << "You have no contacts saved." >> >>]_vars

\* C4: every key of the address book's map is the name of the Record stored
\* under it, and so is every key of the contacts table.
C4_KeysAreNames ==
    /\ \A i \in 1..Len(data) : data[i].k = heap[data[i].v].name
    /\ \A i \in 1..Len(contacts) : contacts[i].k = heap[contacts[i].v].name

\* the book holds a Record added by add_record under a name with a capital,
\* and one added by the add command and shared with the contacts table
C4_Witness ==
    /\ Has(data, N_Bo) /\ Has(data, N_al) /\ Has(contacts, N_al)
    /\ Get(data, N_al) = Get(contacts, N_al)

MatchesNoEntry(user_input) ==
    /\ user_input \notin {W_exit, W_good_bye, W_close, W_hello, W_show_all}
    /\ \A w \in {W_add, W_change, W_phone, W_search} : ~str_startswith(user_input, w)

\* C6: a line that matches no entry of the command table is answered with
\* exactly 'Unknown command. Try again.' and changes neither the contacts
\* table, the address book nor the file; hello, phone <name>, show all and
\* search <query> change none of them either.
C6_ReadOnlyFrame ==
    [][(\/ last'.op \in CliOps /\ MatchesNoEntry(last'.arg)
        \/ last'.op \in {"hello", "phone", "show all", "search"} /\ pc' = "awaiting")
       => /\ pc' = "awaiting"
          /\ contacts' = contacts /\ data' = data /\ file' = file /\ heap' = heap
          /\ (MatchesNoEntry(last'.arg) =>
                  last'.out = << << "Unknown command. Try again." >> >>)]_vars

\* an unknown command has been answered with contacts, book and file in place
C6_Witness ==
    /\ last.op = "unknown" /\ last.arg = W_hello \o SP
    /\ contacts # << >> /\ data # << >> /\ file.exists

\* C7: the phones of a contact of this run are the phone of its last
\* successful add followed by the phones of the successful changes since, in
\* that order; 'phone n' replies with the first of them, and with the generic
\* error message for a name with no successful add in this run.
C7_PhoneIsFirst ==
    /\ \A i \in 1..Len(hist) :
           /\ Has(contacts, hist[i].k)
           /\ heap[Get(contacts, hist[i].k)].phones = hist[i].v
    /\ (last.op = "phone" /\ pc = "awaiting") =>
           LET n == str_split(last.arg, 1)[2] IN
           last.out = << IF Has(hist, n)
                         THEN << "Phone number for " >> \o n \o << ": " >> \o Get(hist, n)[1]
                         ELSE MsgError >>

\* 'phone al' has been answered after an add of P_sup and a change to P2
C7_Witness ==
    /\ last.op = "phone" /\ pc = "awaiting"
    /\ str_split(last.arg, 1)[2] = N_al
    /\ Has(hist, N_al) /\ Get(hist, N_al) = << P_sup, P2 >>

\* the number of times search(q) is to return a Record
Multiplicity(rec, q) ==
    (IF str_contains(str_lower(rec.name), str_lower(q)) THEN 1 ELSE 0)
        + Cardinality({i \in 1..Len(rec.phones) : str_contains(rec.phones[i], q)})

\* C8: search(q) returns every Record of the book once if the lower-cased q
\* is in its lower-cased name, plus once for each of its phones that contains
\* q, returns nothing else, and changes neither the map nor the file.
C8_SearchMultiplicity ==
    [][last'.op \in {"AddressBook.search", "search"} /\ pc' = "awaiting" =>
         LET q == IF last'.op = "search" THEN str_split(last'.arg, 1)[2] ELSE last'.arg IN
         /\ \A i \in 1..Len(data) :
                Count(last'.ret, data[i].v) = Multiplicity(heap[data[i].v], q)
         /\ \A i \in 1..Len(last'.ret) : last'.ret[i] \in Values(data)
         /\ data' = data /\ file' = file /\ heap' = heap]_vars

\* a search for the empty string has returned one Record three times and
\* another twice
C8_Witness ==
    /\ last.op = "AddressBook.search" /\ last.arg = << >> /\ Len(data) = 2
    /\ \E i, j \in 1..Len(data) :
           Count(last.ret, data[i].v) = 3 /\ Count(last.ret, data[j].v) = 2

\* C9: days_to_birthday returns None for a Record with no birthday, and for
\* the birthday 2000-03-15 returns 0 on 2024-03-15 and 364 on 2024-03-16.
C9_DaysToBirthday ==
    last.op = "days_to_birthday" =>
        /\ last.exc = ""
        /\ last.arg[1] = << >> => last.ret = << >>
        /\ (last.arg[1] = << B1 >> /\ last.arg[2] = << 2024, 3, 15 >>) => last.ret = << 0 >>
        /\ (last.arg[1] = << B1 >> /\ last.arg[2] = << 2024, 3, 16 >>) => last.ret = << 364 >>

\* C10: a change command answered with the generic error message leaves the
\* record of the name it was given unchanged in the contacts table, in the
\* address book and in the file.
C10_FailedChangeFrame ==
    [][(last'.op = "change" /\ pc' = "awaiting" /\ last'.out = << MsgError >>) =>
         LET n == str_split(last'.arg, 3)[2] IN
         /\ RecIn(contacts', heap', n) = RecIn(contacts, heap, n)
         /\ RecIn(data', heap', n) = RecIn(data, heap, n)
         /\ FileRec(file', n) = FileRec(file, n)]_vars

====
